---- MODULE Spec2Model ----
(***************************************************************************)
(* Model of nscope (src/main.go): the scope loader, host extraction, host  *)
(* normalization and the scope matcher, together with the line loop of     *)
(* processLines.  Go strings are modelled as sequences of one-character    *)
(* strings; S("a.b") is the sequence <<"a", ".", "b">>.  A value that the  *)
(* code computes once and reads several times is passed to a helper        *)
(* operator as an argument.                                                *)
(***************************************************************************)
EXTENDS Integers, Sequences, FiniteSets, TLC

(***************************************************************************)
(* Strings                                                                 *)
(***************************************************************************)

\* a string literal as a sequence of characters
S(s) ==
  LET F[i \in 0..Len(s)] == IF i = 0 THEN <<>> ELSE Append(F[i - 1], SubSeq(s, i, i))
  IN  F[Len(s)]

\* the two non-ASCII characters of the model: U+00FC (u with diaeresis) and
\* its upper-case form U+00DC
UUML == "U+00FC"
UUMLUpper == "U+00DC"

UpperLetters == S("ABCDEFGHIJKLMNOPQRSTUVWXYZ")
LowerLetters == S("abcdefghijklmnopqrstuvwxyz")
DecDigits == S("0123456789")
HexLower == S("0123456789abcdef")
HexUpper == S("0123456789ABCDEF")

Range(cs) == {cs[i] : i \in 1..Len(cs)}
UpperSet == Range(UpperLetters)
LetterSet == Range(UpperLetters) \cup Range(LowerLetters)
DigitSet == Range(DecDigits)
HexLowerSet == Range(HexLower)
HexUpperSet == Range(HexUpper)
SpaceSet == {" ", "\t"}
NonAsciiSet == {UUML, UUMLUpper}

\* literals of main.go and of the libraries it calls
Dot == <<".">>
Colon == <<":">>
Star == <<"*">>
StarDot == <<"*", ".">>
LBracket == <<"[">>
RBracket == <<"]">>
SchemeSep == <<":", "/", "/">>
HttpPrefix == <<"h", "t", "t", "p", ":", "/", "/">>
PortMarker == <<"_", "_", "P", "O", "R", "T", "_", "_", ":">>
AcePrefix == <<"x", "n", "-", "-">>

Min(xs) == CHOOSE x \in xs : \A y \in xs : x <= y
Max(xs) == CHOOSE x \in xs : \A y \in xs : x >= y
MinOr0(xs) == IF xs = {} THEN 0 ELSE Min(xs)
MaxOr0(xs) == IF xs = {} THEN 0 ELSE Max(xs)

\* position of the first occurrence of character c in cs, 0 when absent
PosIn(c, cs) == MinOr0({i \in 1..Len(cs) : cs[i] = c})

\* unicode.ToLower of one character
LowerChar(c) ==
  IF c \in UpperSet THEN LowerLetters[PosIn(c, UpperLetters)]
  ELSE IF c = UUMLUpper THEN UUML
  ELSE c

\* strings.ToLower
ToLower(s) == IF Len(s) = 0 THEN <<>> ELSE [i \in 1..Len(s) |-> LowerChar(s[i])]

\* strings.EqualFold: equality under simple case folding
EqualFold(a, b) == ToLower(a) = ToLower(b)

\* strings.HasPrefix / strings.HasSuffix
HasPrefix(s, p) == Len(p) <= Len(s) /\ SubSeq(s, 1, Len(p)) = p
HasSuffix(s, p) == Len(p) <= Len(s) /\ SubSeq(s, Len(s) - Len(p) + 1, Len(s)) = p

\* strings.TrimPrefix / strings.TrimSuffix: p is removed once when present
TrimPrefix(s, p) ==
  IF Len(p) <= Len(s) /\ SubSeq(s, 1, Len(p)) = p THEN SubSeq(s, Len(p) + 1, Len(s)) ELSE s
TrimSuffix(s, p) ==
  IF Len(p) <= Len(s) /\ SubSeq(s, Len(s) - Len(p) + 1, Len(s)) = p
  THEN SubSeq(s, 1, Len(s) - Len(p))
  ELSE s

\* the positions at which sub occurs in s
Occurrences(s, sub) ==
  {i \in 1..(Len(s) - Len(sub) + 1) : SubSeq(s, i, i + Len(sub) - 1) = sub}

\* strings.LastIndex, 1-based; 0 when sub does not occur
LastIndex(s, sub) == MaxOr0(Occurrences(s, sub))

\* strings.Contains
Contains(s, sub) == \E i \in 1..(Len(s) - Len(sub) + 1) : SubSeq(s, i, i + Len(sub) - 1) = sub

\* the text of s before position i and after position i
Before(s, i) == SubSeq(s, 1, i - 1)
After(s, i) == SubSeq(s, i + 1, Len(s))

\* strings.TrimSpace
TrimSpaceKeep(s, keep) == IF keep = {} THEN <<>> ELSE SubSeq(s, Min(keep), Max(keep))
TrimSpace(s) == TrimSpaceKeep(s, {i \in 1..Len(s) : s[i] \notin SpaceSet})

\* strings.Split(s, sep) for a one-character separator: always at least one part
RECURSIVE Split(_, _)
SplitAt(s, sep, i) == IF i = 0 THEN <<s>> ELSE <<Before(s, i)>> \o Split(After(s, i), sep)
Split(s, sep) == SplitAt(s, sep, PosIn(sep, s))

\* strings.Join
RECURSIVE Join(_, _)
Join(parts, sep) ==
  IF Len(parts) = 0 THEN <<>>
  ELSE IF Len(parts) = 1 THEN parts[1]
  ELSE parts[1] \o sep \o Join(Tail(parts), sep)

\* strings.Fields: the maximal runs of non-space characters
RECURSIVE Fields(_)
FieldsAt(t, i) ==
  IF t = <<>> THEN <<>>
  ELSE IF i = 0 THEN <<t>>
  ELSE <<Before(t, i)>> \o Fields(After(t, i))
FieldsTrimmed(t) == FieldsAt(t, MinOr0({i \in 1..Len(t) : t[i] \in SpaceSet}))
Fields(s) == FieldsTrimmed(TrimSpace(s))

\* the text of s before the first occurrence of the character c (strings.Cut)
CutBefore(s, c) == IF c \in Range(s) THEN Before(s, PosIn(c, s)) ELSE s

(***************************************************************************)
(* net.ParseIP, IP.String and IP.Equal (Go standard library, as called by  *)
(* main.go).  An address is the sequence of its eight 16-bit groups; an    *)
(* IPv4 address a.b.c.d is the IPv4-mapped 0:0:0:0:0:ffff:ab:cd, as in the *)
(* 16-byte form net.ParseIP returns.  NoIP models a nil result.            *)
(***************************************************************************)

NoIP == <<>>

\* value of a decimal digit string
RECURSIVE DecValue(_)
DecValue(s) ==
  IF Len(s) = 0 THEN 0
  ELSE 10 * DecValue(SubSeq(s, 1, Len(s) - 1)) + (PosIn(s[Len(s)], DecDigits) - 1)

\* value of one hexadecimal digit, -1 when c is none
HexDigitValue(c) ==
  IF c \in HexLowerSet THEN PosIn(c, HexLower) - 1
  ELSE IF c \in HexUpperSet THEN PosIn(c, HexUpper) - 1
  ELSE -1

RECURSIVE HexValue(_)
HexValue(s) ==
  IF Len(s) = 0 THEN 0
  ELSE 16 * HexValue(SubSeq(s, 1, Len(s) - 1)) + HexDigitValue(s[Len(s)])

\* length of the longest prefix of s made of hexadecimal digits
HexPrefixEnd(s, stops) == IF stops = {} THEN Len(s) ELSE Min(stops) - 1
HexPrefixLen(s) ==
  HexPrefixEnd(s, {i \in 1..Len(s) : s[i] \notin HexLowerSet \cup HexUpperSet})

\* one dotted-decimal field: digits only, no leading zero, at most 255
IsIPv4Field(f) ==
  /\ Len(f) >= 1
  /\ Len(f) <= 3
  /\ \A i \in 1..Len(f) : f[i] \in DigitSet
  /\ (Len(f) > 1 => f[1] # "0")
  /\ DecValue(f) <= 255

\* the four octets of a dotted-decimal address, <<>> when s is none
V4Octets(fs) ==
  IF Len(fs) = 4 /\ \A i \in 1..Len(fs) : IsIPv4Field(fs[i])
  THEN [i \in 1..4 |-> DecValue(fs[i])]
  ELSE <<>>
ParseIPv4Fields(s) == V4Octets(Split(s, "."))

\* the two groups that hold four octets
V4Groups(o) == <<o[1] * 256 + o[2], o[3] * 256 + o[4]>>

V4Mapped(o) == IF o = <<>> THEN NoIP ELSE <<0, 0, 0, 0, 0, 65535>> \o V4Groups(o)
ParseIPv4(s) == V4Mapped(ParseIPv4Fields(s))

Zeros(n) == [i \in 1..n |-> 0]

\* the group loop of the IPv6 parser: s is the unread text, g the groups read
\* so far, ell the number of groups before the "::" (-1: none seen)
V6Fail == [ok |-> FALSE, g |-> <<>>, ell |-> -1, rest |-> <<>>]
V6Done(g, ell, rest) == [ok |-> TRUE, g |-> g, ell |-> ell, rest |-> rest]

RECURSIVE V6Loop(_, _, _)
\* behind a group and one colon: a second colon is the ellipsis
V6AfterColon(s, g, ell) ==
  IF s[1] # ":" THEN V6Loop(s, g, ell)
  ELSE IF ell >= 0 THEN V6Fail
  ELSE IF Len(s) = 1 THEN V6Done(g, Len(g), <<>>)
  ELSE V6Loop(Tail(s), g, Len(g))

\* behind a group: the end, or a colon followed by more
V6AfterGroup(s, g, ell) ==
  IF Len(s) = 0 THEN V6Done(g, ell, <<>>)
  ELSE IF s[1] # ":" \/ Len(s) = 1 THEN V6Fail
  ELSE V6AfterColon(Tail(s), g, ell)

\* a trailing embedded IPv4 address with octets o
V6Embedded(o, g, ell) ==
  IF (ell < 0 /\ Len(g) # 6) \/ Len(g) + 2 > 8 \/ o = <<>> THEN V6Fail
  ELSE V6Done(g \o V4Groups(o), ell, <<>>)

\* a group of off hexadecimal digits at the head of s
V6Group(s, g, ell, off) ==
  IF off = 0 \/ off > 4 THEN V6Fail
  ELSE IF off < Len(s) /\ s[off + 1] = "." THEN V6Embedded(ParseIPv4Fields(s), g, ell)
  ELSE V6AfterGroup(SubSeq(s, off + 1, Len(s)), Append(g, HexValue(SubSeq(s, 1, off))), ell)

V6Loop(s, g, ell) ==
  IF Len(g) >= 8 THEN V6Done(g, ell, s) ELSE V6Group(s, g, ell, HexPrefixLen(s))

\* the end of the IPv6 parser: all text used, and the ellipsis expanded
V6Expand(r) ==
  IF ~r.ok \/ Len(r.rest) # 0 THEN NoIP
  ELSE IF Len(r.g) < 8
  THEN IF r.ell < 0 THEN NoIP
       ELSE SubSeq(r.g, 1, r.ell) \o Zeros(8 - Len(r.g)) \o SubSeq(r.g, r.ell + 1, Len(r.g))
  ELSE IF r.ell >= 0 THEN NoIP
  ELSE r.g

ParseIPv6(s) ==
  IF "%" \in Range(s) THEN NoIP
  ELSE IF s = <<":", ":">> THEN Zeros(8)
  ELSE IF Len(s) >= 2 /\ s[1] = ":" /\ s[2] = ":" THEN V6Expand(V6Loop(SubSeq(s, 3, Len(s)), <<>>, 0))
  ELSE V6Expand(V6Loop(s, <<>>, -1))

\* net.ParseIP: the first of '.', ':' and '%' in s decides the family
ParseIPFamily(s, i) ==
  IF i = 0 THEN NoIP
  ELSE IF s[i] = "." THEN ParseIPv4(s)
  ELSE IF s[i] = ":" THEN ParseIPv6(s)
  ELSE NoIP
ParseIP(s) == ParseIPFamily(s, MinOr0({i \in 1..Len(s) : s[i] \in {".", ":", "%"}}))

\* IP.Equal on two results of ParseIP
IPEqual(a, b) == a # NoIP /\ a = b

RECURSIVE DecString(_)
DecString(n) ==
  IF n < 10 THEN <<DecDigits[n + 1]>>
  ELSE Append(DecString(n \div 10), DecDigits[(n % 10) + 1])

RECURSIVE HexString(_)
HexString(n) ==
  IF n < 16 THEN <<HexLower[n + 1]>>
  ELSE Append(HexString(n \div 16), HexLower[(n % 16) + 1])

\* length of the run of zero groups of ip that starts at group i
RECURSIVE ZeroRun(_, _)
ZeroRun(ip, i) == IF i > 8 THEN 0 ELSE IF ip[i] # 0 THEN 0 ELSE 1 + ZeroRun(ip, i + 1)

\* start of the first longest run of at least two zero groups, 0 when none
LongestZeroRun(ip, cands) ==
  MinOr0({i \in cands : \A j \in cands : ZeroRun(ip, i) >= ZeroRun(ip, j)})
ZeroStart(ip) == LongestZeroRun(ip, {i \in 1..8 : ZeroRun(ip, i) >= 2})

RECURSIVE HexGroups(_, _, _)
HexGroups(ip, lo, hi) ==
  IF lo > hi THEN <<>>
  ELSE IF lo = hi THEN HexString(ip[lo])
  ELSE HexString(ip[lo]) \o Colon \o HexGroups(ip, lo + 1, hi)

\* the IPv6 text of ip with the zero run at z written "::"
IPv6Text(ip, z) ==
  IF z = 0 THEN HexGroups(ip, 1, 8)
  ELSE HexGroups(ip, 1, z - 1) \o <<":", ":">> \o HexGroups(ip, z + ZeroRun(ip, z), 8)

\* dotted decimal of the two groups hi, lo
IPv4Text(hi, lo) ==
  Join(<<DecString(hi \div 256), DecString(hi % 256), DecString(lo \div 256), DecString(lo % 256)>>, Dot)

\* IP.String: dotted decimal for an IPv4-mapped address, else the compressed
\* lower-case IPv6 text
IPString(ip) ==
  IF SubSeq(ip, 1, 6) = <<0, 0, 0, 0, 0, 65535>> THEN IPv4Text(ip[7], ip[8])
  ELSE IPv6Text(ip, ZeroStart(ip))

(***************************************************************************)
(* net.SplitHostPort (Go standard library, called by stripPort)            *)
(***************************************************************************)

HostPortErr == [err |-> TRUE, host |-> <<>>, port |-> <<>>]
HostPortOk(host, port) == [err |-> FALSE, host |-> host, port |-> port]

\* "[host]:port": end is the position of the first "]", i of the last ":"
SplitBracketed(hp, i, end) ==
  IF end = 0 \/ end + 1 # i THEN HostPortErr
  ELSE IF "[" \in Range(After(hp, 1)) THEN HostPortErr
  ELSE IF "]" \in Range(After(hp, end)) THEN HostPortErr
  ELSE HostPortOk(SubSeq(hp, 2, end - 1), After(hp, i))

\* "host:port": i is the position of the last ":"
SplitPlain(hp, i) ==
  IF ":" \in Range(Before(hp, i)) THEN HostPortErr
  ELSE IF "[" \in Range(hp) \/ "]" \in Range(hp) THEN HostPortErr
  ELSE HostPortOk(Before(hp, i), After(hp, i))

SplitAtLastColon(hp, i) ==
  IF i = 0 THEN HostPortErr
  ELSE IF hp[1] = "[" THEN SplitBracketed(hp, i, PosIn("]", hp))
  ELSE SplitPlain(hp, i)

\* [err, host, port]; err is TRUE for every error SplitHostPort reports
SplitHostPort(hp) == SplitAtLastColon(hp, LastIndex(hp, Colon))

(***************************************************************************)
(* idna.ToASCII (golang.org/x/net/idna, the Punycode profile): every       *)
(* label is converted on its own; an ASCII label is kept, a label with the *)
(* ACE prefix "xn--" is decoded and encoded again, a non-ASCII label is    *)
(* Punycode-encoded (RFC 3492).  The model knows two non-ASCII characters, *)
(* U+00FC and U+00DC; a label that decodes to any other is reported as an  *)
(* error.                                                                  *)
(***************************************************************************)

CodePoint(c) == IF c = UUML THEN 252 ELSE IF c = UUMLUpper THEN 220 ELSE 0
CharOfCodePoint(n) == IF n = 252 THEN UUML ELSE UUMLUpper

IsAsciiChar(c) == c \notin NonAsciiSet
IsAscii(s) == \A i \in 1..Len(s) : s[i] \notin NonAsciiSet

\* the threshold t of RFC 3492 for position k
PunyT(k, bias) == IF k <= bias THEN 1 ELSE IF k >= bias + 26 THEN 26 ELSE k - bias

\* encodeDigit: 0..25 -> a..z, 26..35 -> 0..9
PunyDigit(d) == IF d < 26 THEN LowerLetters[d + 1] ELSE DecDigits[d - 26 + 1]

\* decodeDigit, -1 when c is no digit
PunyDigitValue(c) ==
  IF c \in DigitSet THEN PosIn(c, DecDigits) - 1 + 26
  ELSE IF c \in UpperSet THEN PosIn(c, UpperLetters) - 1
  ELSE IF c \in LetterSet THEN PosIn(c, LowerLetters) - 1
  ELSE -1

RECURSIVE AdaptLoop(_, _)
AdaptLoop(delta, k) ==
  IF delta > 455 THEN AdaptLoop(delta \div 35, k + 36)
  ELSE k + (36 * delta) \div (delta + 38)

\* adapt: the bias adaptation of RFC 3492
AdaptScaled(d, numPoints) == AdaptLoop(d + d \div numPoints, 0)
Adapt(delta, numPoints, firstTime) ==
  AdaptScaled(IF firstTime THEN delta \div 700 ELSE delta \div 2, numPoints)

\* the variable-length integer q as digits
RECURSIVE PunyVarInt(_, _, _)
PunyVarIntT(q, k, bias, t) ==
  IF q < t THEN <<PunyDigit(q)>>
  ELSE <<PunyDigit(t + ((q - t) % (36 - t)))>> \o PunyVarInt((q - t) \div (36 - t), k + 36, bias)
PunyVarInt(q, k, bias) == PunyVarIntT(q, k, bias, PunyT(k, bias))

\* one pass over the label for code point n: st = [out, delta, bias, h]
RECURSIVE PunyEncodePass(_, _, _, _, _)
PunyEncodeChar(s, i, n, b, st, r) ==
  IF r < n THEN PunyEncodePass(s, i + 1, n, b, [st EXCEPT !.delta = @ + 1])
  ELSE IF r > n THEN PunyEncodePass(s, i + 1, n, b, st)
  ELSE PunyEncodePass(s, i + 1, n, b,
         [out |-> st.out \o PunyVarInt(st.delta, 36, st.bias),
          bias |-> Adapt(st.delta, st.h + 1, st.h = b),
          delta |-> 0,
          h |-> st.h + 1])
PunyEncodePass(s, i, n, b, st) ==
  IF i > Len(s) THEN st ELSE PunyEncodeChar(s, i, n, b, st, CodePoint(s[i]))

\* the passes of encode, one for each code point m of the label from n on
RECURSIVE PunyEncodeLoop(_, _, _, _)
PunyEncodeNext(s, b, st, m) == PunyEncodeLoop(s, m + 1, b, [st EXCEPT !.delta = @ + 1])
PunyEncodeFor(s, n, b, st, m) ==
  PunyEncodeNext(s, b, PunyEncodePass(s, 1, m, b, [st EXCEPT !.delta = @ + (m - n) * (st.h + 1)]), m)
PunyEncodeLoop(s, n, b, st) ==
  IF st.h >= Len(s) THEN st.out
  ELSE PunyEncodeFor(s, n, b, st, Min({CodePoint(s[i]) : i \in 1..Len(s)} \ (0..(n - 1))))

\* encode: the Punycode form of a label, behind the ACE prefix
PunyEncodeBasic(s, basic) ==
  PunyEncodeLoop(s, 128, Len(basic),
    [out |-> AcePrefix \o basic \o (IF Len(basic) > 0 THEN <<"-">> ELSE <<>>),
     delta |-> 0, bias |-> 72, h |-> Len(basic)])
PunyEncode(s) == PunyEncodeBasic(s, SelectSeq(s, IsAsciiChar))

\* one variable-length integer of the encoded text: [ok, pos, i]
RECURSIVE PunyReadInt(_, _, _, _, _, _)
PunyReadDigit(enc, pos, i, w, k, bias, digit, t) ==
  IF digit < 0 THEN [ok |-> FALSE, pos |-> pos, i |-> i]
  ELSE IF digit < t THEN [ok |-> TRUE, pos |-> pos + 1, i |-> i + w * digit]
  ELSE PunyReadInt(enc, pos + 1, i + w * digit, w * (36 - t), k + 36, bias)
PunyReadInt(enc, pos, i, w, k, bias) ==
  IF pos > Len(enc) THEN [ok |-> FALSE, pos |-> pos, i |-> i]
  ELSE PunyReadDigit(enc, pos, i, w, k, bias, PunyDigitValue(enc[pos]), PunyT(k, bias))

PunyErr == [err |-> TRUE, s |-> <<>>]
PunyOk(s) == [err |-> FALSE, s |-> s]

\* the loop of decode: out is the label so far, i the insertion state
RECURSIVE PunyDecodeLoop(_, _, _, _, _, _)
PunyInsert(enc, out, i, bias, r, n1, i1) ==
  IF n1 \notin {220, 252} THEN PunyErr
  ELSE PunyDecodeLoop(enc, r.pos,
         SubSeq(out, 1, i1) \o <<CharOfCodePoint(n1)>> \o SubSeq(out, i1 + 1, Len(out)),
         i1 + 1, n1, Adapt(r.i - i, Len(out) + 1, i = 0))
PunyDecoded(enc, out, i, n, bias, r) ==
  IF ~r.ok THEN PunyErr
  ELSE PunyInsert(enc, out, i, bias, r, n + r.i \div (Len(out) + 1), r.i % (Len(out) + 1))
PunyDecodeLoop(enc, pos, out, i, n, bias) ==
  IF pos > Len(enc) THEN PunyOk(out)
  ELSE PunyDecoded(enc, out, i, n, bias, PunyReadInt(enc, pos, i, 1, 36, bias))

\* decode: the label that a Punycode text (without the ACE prefix) stands for
PunyDecodeAt(enc, pos) ==
  IF Len(enc) = 0 THEN PunyOk(<<>>)
  ELSE IF pos = 1 THEN PunyErr
  ELSE IF pos = Len(enc) THEN PunyOk(SubSeq(enc, 1, Len(enc) - 1))
  ELSE PunyDecodeLoop(enc, pos + 1, SubSeq(enc, 1, pos - 1), 0, 128, 72)
PunyDecode(enc) == PunyDecodeAt(enc, LastIndex(enc, <<"-">>))

\* a label to ASCII: kept when it is ASCII, else encoded
LabelToASCII(label) == IF IsAscii(label) THEN label ELSE PunyEncode(label)

\* a label with the ACE prefix, decoded to d
IdnaDecoded(label, d) == IF d.err THEN [err |-> TRUE, s |-> label] ELSE PunyOk(LabelToASCII(d.s))

\* one label through Profile.process and the ToASCII pass: [err, s]
IdnaLabel(label) ==
  IF Len(label) = 0 THEN PunyOk(label)
  ELSE IF HasPrefix(label, AcePrefix) THEN IdnaDecoded(label, PunyDecode(SubSeq(label, 5, Len(label))))
  ELSE IF IsAscii(label) THEN PunyOk(label)
  ELSE PunyOk(PunyEncode(label))

\* idna.ToASCII: [err, s]
IdnaJoin(rs) ==
  [err |-> \E i \in 1..Len(rs) : rs[i].err,
   s |-> Join([i \in 1..Len(rs) |-> rs[i].s], Dot)]
IdnaLabels(ls) == IdnaJoin([i \in 1..Len(ls) |-> IdnaLabel(ls[i])])
IdnaToASCII(s) == IdnaLabels(Split(s, "."))

(***************************************************************************)
(* url.Parse (Go standard library), as far as the Host of the result: the  *)
(* fragment and the query are cut off, the scheme is split off, and the    *)
(* authority between "//" and the next "/" is checked by parseAuthority.   *)
(* The model has no percent escapes: "%" is an invalid host character.     *)
(***************************************************************************)

UrlErr == [err |-> TRUE, host |-> <<>>]
UrlHost(h) == [err |-> FALSE, host |-> h]

\* getScheme: [err, scheme, rest]; i is the first position that ends the run
\* of scheme characters (0: none)
SchemeAt(raw, i) ==
  IF i = 0 THEN [err |-> FALSE, scheme |-> <<>>, rest |-> raw]
  ELSE IF raw[i] # ":" THEN [err |-> FALSE, scheme |-> <<>>, rest |-> raw]
  ELSE IF i = 1 THEN [err |-> TRUE, scheme |-> <<>>, rest |-> <<>>]
  ELSE [err |-> FALSE, scheme |-> Before(raw, i), rest |-> After(raw, i)]
GetScheme(raw) ==
  SchemeAt(raw, MinOr0({i \in 1..Len(raw) :
                          /\ raw[i] \notin LetterSet
                          /\ (i = 1 \/ raw[i] \notin DigitSet \cup {"+", "-", "."})}))

\* validOptionalPort: empty, or a colon followed by digits only
ValidOptionalPort(p) ==
  Len(p) = 0 \/ (p[1] = ":" /\ \A i \in 2..Len(p) : p[i] \in DigitSet)

\* the characters of the model that unescape(host, encodeHost) rejects
InvalidHostChars == {" ", "\t", "#", "/", "?", "@", "%"}

\* parseHost: [err, host]; rb and lc are the positions of the last "]" and ":"
ParseHostAt(host, rb, lc) ==
  IF \E i \in 1..Len(host) : host[i] \in InvalidHostChars THEN UrlErr
  ELSE IF Len(host) > 0 /\ host[1] = "["
  THEN IF rb = 0 THEN UrlErr
       ELSE IF ~ValidOptionalPort(After(host, rb)) THEN UrlErr
       ELSE UrlHost(host)
  ELSE IF lc # 0 /\ ~ValidOptionalPort(SubSeq(host, lc, Len(host))) THEN UrlErr
  ELSE UrlHost(host)
ParseHost(host) == ParseHostAt(host, LastIndex(host, RBracket), LastIndex(host, Colon))

\* parseAuthority: the host follows the last "@"
ParseAuthority(authority) == ParseHost(After(authority, LastIndex(authority, <<"@">>)))

\* parse, behind the scheme and without the query
UrlRest(scheme, rest) ==
  IF (Len(rest) = 0 \/ rest[1] # "/") /\ scheme # <<>> THEN UrlHost(<<>>)
  ELSE IF (Len(rest) = 0 \/ rest[1] # "/") /\ ":" \in Range(CutBefore(rest, "/")) THEN UrlErr
  ELSE IF (scheme # <<>> \/ ~HasPrefix(rest, <<"/", "/", "/">>)) /\ HasPrefix(rest, <<"/", "/">>)
  THEN ParseAuthority(CutBefore(SubSeq(rest, 3, Len(rest)), "/"))
  ELSE UrlHost(<<>>)

UrlScheme(u, sch) ==
  IF u = Star THEN UrlHost(<<>>)
  ELSE IF sch.err THEN UrlErr
  ELSE UrlRest(sch.scheme, CutBefore(sch.rest, "?"))

UrlNoFragment(u) == UrlScheme(u, GetScheme(u))

\* url.Parse: [err, host]
UrlParse(rawURL) == UrlNoFragment(CutBefore(rawURL, "#"))

(***************************************************************************)
(* main.go                                                                 *)
(***************************************************************************)

\* scopeKind
scopeExact == 0
scopeLeadingWildcard == 1
scopePatternWildcard == 2

\* a scopeEntry value; the zero value of an unset string or slice is <<>>
scopeEntry(raw, kind, base, port, patternLabels) ==
  [raw |-> raw, kind |-> kind, base |-> base, port |-> port, patternLabels |-> patternLabels]

stripBrackets(s) == TrimSuffix(TrimPrefix(s, LBracket), RBracket)

\* the repeated "if HasPrefix(h, "[") && HasSuffix(h, "]") { h = stripBrackets(h) }"
unbracket(h) ==
  IF HasPrefix(h, LBracket) /\ HasSuffix(h, RBracket) THEN stripBrackets(h) ELSE h

\* the repeated "if ascii, err := idna.ToASCII(h); err == nil { h = ascii }"
keepOnError(h, r) == IF r.err THEN h ELSE r.s
toASCIIOrKeep(h) == keepOnError(h, IdnaToASCII(h))

HostPort(host, port) == [host |-> host, port |-> port]

\* stripPort, the bracket branch: rest is the text behind the last "]"
stripPortBracketed(host, rest) ==
  IF HasPrefix(rest, Colon) THEN HostPort(host, TrimPrefix(rest, Colon))
  ELSE HostPort(host, <<>>)

\* stripPort, the fallback: parts is h split on ":"
stripPortLastColon(h, parts) ==
  IF Len(parts) > 1 /\ ParseIP(parts[Len(parts)]) = NoIP
  THEN HostPort(Join(SubSeq(parts, 1, Len(parts) - 1), Colon), parts[Len(parts)])
  ELSE HostPort(h, <<>>)

\* stripPort, behind the bracket branch: shp is net.SplitHostPort(h)
stripPortSplit(h, shp) ==
  IF ~shp.err THEN HostPort(shp.host, shp.port)
  ELSE stripPortLastColon(h, Split(h, ":"))

\* stripPort on the trimmed h: idx is the position of the last "]"
stripPortTrimmed(h, idx) ==
  IF h = <<>> THEN HostPort(<<>>, <<>>)
  ELSE IF h[1] = "[" /\ idx # 0 THEN stripPortBracketed(SubSeq(h, 1, idx), After(h, idx))
  ELSE stripPortSplit(h, SplitHostPort(h))

stripPortFind(h) == stripPortTrimmed(h, LastIndex(h, RBracket))

\* stripPort: [host, port]
stripPort(h) == stripPortFind(TrimSpace(h))

\* the label loop of parseScopeLine's pattern branch: i runs over the labels
\* the line was split into (n of them); a port found in a label is appended
\* to labels behind a marker
RECURSIVE patternLabelLoop(_, _, _)

\* a label with a colon, its host part h stored: p is the port split off
patternPort(labels, i, n, p) ==
  IF p # <<>> THEN patternLabelLoop(Append(labels, PortMarker \o p), i + 1, n)
  ELSE patternLabelLoop(labels, i + 1, n)

\* a label with a colon: hp is stripPort(lbl)
patternHostPort(labels, i, n, hp) ==
  patternPort([labels EXCEPT ![i] = toASCIIOrKeep(unbracket(TrimSuffix(hp.host, Dot)))],
              i, n, hp.port)

\* the loop body for the trimmed label lbl
patternLabel(labels, i, n, lbl) ==
  IF lbl = <<>> THEN patternLabelLoop([labels EXCEPT ![i] = lbl], i + 1, n)
  ELSE IF ":" \in Range(lbl) THEN patternHostPort(labels, i, n, stripPort(lbl))
  ELSE IF lbl # Star
  THEN patternLabelLoop([labels EXCEPT ![i] = ToLower(toASCIIOrKeep(lbl))], i + 1, n)
  ELSE patternLabelLoop([labels EXCEPT ![i] = ToLower(lbl)], i + 1, n)

patternLabelLoop(labels, i, n) ==
  IF i > n THEN labels ELSE patternLabel(labels, i, n, TrimSpace(labels[i]))

\* parseScopeLine, the "*." branch: hp is stripPort of the line behind "*."
leadingEntry(orig, hp) ==
  scopeEntry(orig, scopeLeadingWildcard,
             ToLower(toASCIIOrKeep(unbracket(TrimSuffix(hp.host, Dot)))), hp.port, <<>>)

\* parseScopeLine, the "*" branch behind the label loop
patternEntry(orig, labels) ==
  IF HasPrefix(labels[Len(labels)], PortMarker)
  THEN scopeEntry(orig, scopePatternWildcard, <<>>,
                  TrimPrefix(labels[Len(labels)], PortMarker), SubSeq(labels, 1, Len(labels) - 1))
  ELSE scopeEntry(orig, scopePatternWildcard, <<>>, <<>>, labels)

patternSplit(orig, labels) == patternEntry(orig, patternLabelLoop(labels, 1, Len(labels)))

\* parseScopeLine, the branch without wildcard: ip is net.ParseIP(host)
exactParsed(orig, host, port, ip) ==
  IF ip # NoIP THEN scopeEntry(orig, scopeExact, IPString(ip), port, <<>>)
  ELSE scopeEntry(orig, scopeExact, ToLower(toASCIIOrKeep(host)), port, <<>>)

exactHost(orig, host, port) == exactParsed(orig, host, port, ParseIP(host))

exactEntry(orig, hp) == exactHost(orig, unbracket(TrimSuffix(hp.host, Dot)), hp.port)

\* parseTrimmed with a line of several "*" taken as a pattern even behind "*."
parseTrimmedPatternFirst(orig, line) ==
  IF HasPrefix(line, StarDot) /\ "*" \notin Range(TrimPrefix(line, StarDot))
  THEN leadingEntry(orig, stripPort(TrimPrefix(line, StarDot)))
  ELSE IF "*" \in Range(line) THEN patternSplit(orig, Split(line, "."))
  ELSE exactEntry(orig, stripPort(line))

\* parseScopeLine behind "line = TrimSuffix(TrimSpace(line), ".")"
parseTrimmed(orig, line) ==
  IF HasPrefix(line, StarDot) THEN leadingEntry(orig, stripPort(TrimPrefix(line, StarDot)))
  ELSE IF "*" \in Range(line) THEN patternSplit(orig, Split(line, "."))
  ELSE exactEntry(orig, stripPort(line))

\* parseScopeLine: one scope-file line to a scopeEntry
parseScopeLine(orig) == parseTrimmed(orig, TrimSuffix(TrimSpace(orig), Dot))

\* loadScope's loop body behind the inline-comment cut
loadCut(trimmed) == IF trimmed = <<>> THEN <<>> ELSE <<parseScopeLine(trimmed)>>

loadTrimmed(trimmed) ==
  IF trimmed = <<>> THEN <<>>
  ELSE IF trimmed[1] = "#" THEN <<>>
  ELSE IF "#" \in Range(trimmed) THEN loadCut(TrimSpace(Before(trimmed, PosIn("#", trimmed))))
  ELSE loadCut(trimmed)

\* the body of loadScope's loop for one line of the file: the entries it
\* appends (none for a blank line or a comment)
loadScopeLine(raw) == loadTrimmed(TrimSpace(raw))

NoHost == [host |-> <<>>, port |-> <<>>, ok |-> FALSE]

\* "h, p := stripPort(x); if ... { h = stripBrackets(h) }; return h, p, true"
hostPortSplit(hp) == [host |-> unbracket(hp.host), port |-> hp.port, ok |-> TRUE]
hostPortOf(field) == hostPortSplit(stripPort(field))

\* extractHostFromLine, the "://" branch: u is url.Parse(first)
extractURL(u) ==
  IF u.err THEN NoHost
  ELSE IF u.host = <<>> THEN NoHost
  ELSE hostPortOf(u.host)

\* extractSlash with the field given up when the URL has no host
extractSlashDiscards(first, v) ==
  IF ~v.err /\ v.host # <<>> THEN hostPortOf(v.host)
  ELSE NoHost

\* extractHostFromLine, the "/" branch and the fall-through behind it: v is
\* url.Parse("http://" + first)
extractSlash(first, v) ==
  IF ~v.err /\ v.host # <<>> THEN hostPortOf(v.host)
  ELSE hostPortOf(first)

extractFirst(first) ==
  IF Contains(first, SchemeSep) THEN extractURL(UrlParse(first))
  ELSE IF first[1] = "[" /\ "]" \in Range(first) THEN hostPortOf(first)
  ELSE IF "/" \in Range(first) THEN extractSlash(first, UrlParse(HttpPrefix \o first))
  ELSE hostPortOf(first)

extractFields(fields) == IF Len(fields) = 0 THEN NoHost ELSE extractFirst(fields[1])

extractTrimmed(line) ==
  IF line = <<>> THEN NoHost
  ELSE IF line[1] = "#" THEN NoHost
  ELSE extractFields(Fields(line))

\* extractHostFromLine: [host, port, ok]
extractHostFromLine(line) == extractTrimmed(TrimSpace(line))

\* normalizeHost behind the trailing-dot strip: ip is net.ParseIP(h)
normalizeParsed(h, ip) ==
  IF ip # NoIP THEN IPString(ip) ELSE ToLower(toASCIIOrKeep(h))

normalizeStripped(h) == normalizeParsed(h, ParseIP(h))

normalizeTrimmed(h) == IF h = <<>> THEN <<>> ELSE normalizeStripped(TrimSuffix(h, Dot))

\* normalizeHost (its error result is always nil)
normalizeHost(h) == normalizeTrimmed(TrimSpace(h))

equalHost(a, b) == EqualFold(TrimSuffix(a, Dot), TrimSuffix(b, Dot))

\* matchLeadingWildcard with the suffix test without the "." in front of base
matchLeadingWildcardNoBoundary(host, base) ==
  IF equalHost(host, base) THEN TRUE
  ELSE IF HasSuffix(host, base) THEN TRUE
  ELSE FALSE

matchLeadingWildcard(host, base) ==
  IF equalHost(host, base) THEN TRUE
  ELSE IF HasSuffix(host, Dot \o base) THEN TRUE
  ELSE FALSE

\* matchLabel with "*" matching an empty host label too
matchLabelEmptyToo(h, p) == IF p = Star THEN TRUE ELSE EqualFold(h, p)

\* matchPatternWildcard's loop body for host label h and the pattern label p,
\* trimmed and in lower case
matchLabel(h, p) == IF p = Star THEN h # <<>> ELSE EqualFold(h, p)

matchLabels(hl, pattern) ==
  IF Len(hl) # Len(pattern) THEN FALSE
  ELSE \A i \in 1..Len(pattern) : matchLabel(hl[i], ToLower(TrimSpace(pattern[i])))

matchPatternWildcard(host, pattern) == matchLabels(Split(TrimSuffix(host, Dot), "."), pattern)

\* matchHost's loop for a host that is the IP literal ip, from entry i on
RECURSIVE matchIPLoop(_, _, _, _, _)
matchIPEntry(host, ip, port, scope, i, e) ==
  IF e.kind # scopeExact THEN matchIPLoop(host, ip, port, scope, i + 1)
  ELSE IF IPEqual(ParseIP(e.base), ip)
  THEN IF e.port # <<>>
       THEN IF e.port = port THEN TRUE ELSE matchIPLoop(host, ip, port, scope, i + 1)
       ELSE TRUE
  ELSE IF EqualFold(e.base, host)
  THEN IF e.port # <<>>
       THEN IF e.port = port THEN TRUE ELSE matchIPLoop(host, ip, port, scope, i + 1)
       ELSE TRUE
  ELSE matchIPLoop(host, ip, port, scope, i + 1)
matchIPLoop(host, ip, port, scope, i) ==
  IF i > Len(scope) THEN FALSE ELSE matchIPEntry(host, ip, port, scope, i, scope[i])

\* the condition of the case of e's kind in matchHost's switch
kindMatches(host, e) ==
  IF e.kind = scopeExact THEN equalHost(host, e.base)
  ELSE IF e.kind = scopeLeadingWildcard THEN matchLeadingWildcard(host, e.base)
  ELSE IF e.kind = scopePatternWildcard THEN matchPatternWildcard(host, e.patternLabels)
  ELSE FALSE

\* matchHost's loop for a domain name, from entry i on
RECURSIVE matchDomainLoop(_, _, _, _)
\* matchDomainEntry with the loop ended by the first entry whose host rule
\* accepts the host, whatever its port
matchDomainEntryFirstHostWins(host, port, scope, i, e) ==
  IF kindMatches(host, e)
  THEN IF e.port # <<>> THEN e.port = port ELSE TRUE
  ELSE matchDomainLoop(host, port, scope, i + 1)
matchDomainEntry(host, port, scope, i, e) ==
  IF kindMatches(host, e)
  THEN IF e.port # <<>>
       THEN IF e.port = port THEN TRUE ELSE matchDomainLoop(host, port, scope, i + 1)
       ELSE TRUE
  ELSE matchDomainLoop(host, port, scope, i + 1)
matchDomainLoop(host, port, scope, i) ==
  IF i > Len(scope) THEN FALSE ELSE matchDomainEntry(host, port, scope, i, scope[i])

\* matchParsed with an IP literal matched like a domain name
matchParsedAsDomain(host, port, scope, ip) == matchDomainLoop(host, port, scope, 1)

\* matchHost behind the empty-host check: ip is net.ParseIP(host)
matchParsed(host, port, scope, ip) ==
  IF ip # NoIP THEN matchIPLoop(host, ip, port, scope, 1)
  ELSE matchDomainLoop(host, port, scope, 1)

matchHost(host, port, scope) ==
  IF host = <<>> THEN FALSE ELSE matchParsed(host, port, scope, ParseIP(host))

(***************************************************************************)
(* The run of main: loadScope reads the scope file line by line, then      *)
(* processLines reads the input line by line and writes the lines it       *)
(* keeps.  scopeLines and inputLines are the lines the two files may hold. *)
(***************************************************************************)

VARIABLES
  scopeLines,  \* the lines the scope file may hold
  inputLines,  \* the lines the input may hold
  pc,          \* "loadScope", "processLines" or "done"
  reverse,     \* the -r flag
  scope,       \* the entries loadScope has appended
  lines,       \* the input lines scanned so far
  out,         \* the lines written to the output
  host,        \* processLines' locals in the latest iteration
  port,
  ok,
  normHost,
  matched

vars == <<scopeLines, inputLines, pc, reverse, scope, lines, out,
          host, port, ok, normHost, matched>>

\* the most scope entries and input lines of a run of the model
MaxScope == 2
MaxLines == 2

\* the state in which main starts: sl and il are the lines the files may
\* hold, rev the values the -r flag may have
InitRun(sl, il, rev) ==
  /\ scopeLines = sl
  /\ inputLines = il
  /\ reverse \in rev
  /\ pc = "loadScope"
  /\ scope = <<>>
  /\ lines = <<>>
  /\ out = <<>>
  /\ host = <<>>
  /\ port = <<>>
  /\ ok = FALSE
  /\ normHost = <<>>
  /\ matched = FALSE

\* loadScope: one iteration of "for sc.Scan()"
LoadScopeLine ==
  /\ pc = "loadScope"
  /\ Len(scope) < MaxScope
  /\ \E raw \in scopeLines : scope' = scope \o loadScopeLine(raw)
  /\ UNCHANGED <<scopeLines, inputLines, pc, reverse, lines, out,
                 host, port, ok, normHost, matched>>

\* loadScope returns at the end of the file and main calls processLines
LoadScopeDone ==
  /\ pc = "loadScope"
  /\ pc' = "processLines"
  /\ UNCHANGED <<scopeLines, inputLines, reverse, scope, lines, out,
                 host, port, ok, normHost, matched>>

\* written with the -r flag ignored
writtenIgnoringReverse(line, m, rev) == IF m THEN <<line>> ELSE <<>>

\* the two Fprintln of processLines: what they write for line
written(line, m, rev) ==
  (IF m /\ ~rev THEN <<line>> ELSE <<>>) \o (IF ~m /\ rev THEN <<line>> ELSE <<>>)

\* skipped with the line written when -r is set
skippedWritesWhenReversed(line, r, nh) ==
  /\ lines' = Append(lines, line)
  /\ host' = r.host
  /\ port' = r.port
  /\ ok' = r.ok
  /\ normHost' = nh
  /\ matched' = FALSE
  /\ out' = out \o (IF reverse THEN <<line>> ELSE <<>>)

\* the end of an iteration that did not reach matchHost ("continue")
skipped(line, r, nh) ==
  /\ lines' = Append(lines, line)
  /\ host' = r.host
  /\ port' = r.port
  /\ ok' = r.ok
  /\ normHost' = nh
  /\ matched' = FALSE
  /\ out' = out

\* the end of an iteration in which matchHost returned m
decided(line, r, nh, m) ==
  /\ lines' = Append(lines, line)
  /\ host' = r.host
  /\ port' = r.port
  /\ ok' = r.ok
  /\ normHost' = nh
  /\ matched' = m
  /\ out' = out \o written(line, m, reverse)

\* the iteration behind normalizeHost, which returned nh
normalized(line, r, nh) ==
  IF nh = <<>> THEN skipped(line, r, nh)
  ELSE decided(line, r, nh, matchHost(nh, r.port, scope))

\* the iteration behind extractHostFromLine, which returned r
extracted(line, r) ==
  IF ~r.ok THEN skipped(line, r, <<>>)
  ELSE normalized(line, r, normalizeHost(r.host))

\* processLines: one iteration of "for scanner.Scan()"
ProcessLine ==
  /\ pc = "processLines"
  /\ Len(lines) < MaxLines
  /\ \E line \in inputLines : extracted(line, extractHostFromLine(line))
  /\ UNCHANGED <<scopeLines, inputLines, pc, reverse, scope>>

\* processLines returns at the end of the input
ProcessDone ==
  /\ pc = "processLines"
  /\ pc' = "done"
  /\ UNCHANGED <<scopeLines, inputLines, reverse, scope, lines, out,
                 host, port, ok, normHost, matched>>

Next == LoadScopeLine \/ LoadScopeDone \/ ProcessLine \/ ProcessDone

\* the scope file and lines of the input of the README's example, with one-letter
\* labels (e.c: example.com, t.c: test.com, s.*.d.c: staging.*.domain.com),
\* and three lines without a host: a comment, a blank line, a URL without one
ReadmeScope == {S("e.c"), S("*.t.c"), S("s.*.d.c")}
ReadmeInput ==
  {S("https://e.c"), S("s.t.c"), S("d.c:80"), S("https://e.c/l [200]"),
   S("s.d.c"), S("# e.c"), S("  "), S("http://")}

Init == InitRun(ReadmeScope, ReadmeInput, BOOLEAN)
Spec == Init /\ [][Next]_vars

\* the line of the latest iteration of processLines
lastLine == lines[Len(lines)]

(***************************************************************************)
(* processLines writes exactly the lines it has to                         *)
(***************************************************************************)

keptNormalized(r, nh) == nh # <<>> /\ (matchHost(nh, r.port, scope) # reverse)
keptExtracted(r) == r.ok /\ keptNormalized(r, normalizeHost(r.host))
kept(line) == keptExtracted(extractHostFromLine(line))

\* C5: the output is the input with exactly those lines kept, verbatim, once
\* each and in input order, whose host is extracted and normalized to a
\* non-empty host and for which matchHost differs from the -r flag
C5_OutputIsFilteredInput == out = SelectSeq(lines, kept)

\* two lines read under -r, the first in scope and the second not: only the
\* second is written
C5_Witness ==
  /\ reverse
  /\ pc = "done"
  /\ lines = <<S("https://e.c"), S("s.d.c")>>
  /\ out = <<S("s.d.c")>>

\* C6 as stated: a line whose host cannot be parsed is written when -r is set
C6_UnparsedWrittenWhenReversed ==
  (lines # <<>> /\ ~ok /\ reverse) => (out # <<>> /\ out[Len(out)] = lastLine)

\* C6: a line whose host cannot be parsed is no error, the loop goes on with
\* the next line, and the line is written neither without nor with -r
C6_UnparsedNeverWritten ==
  [][(lines' # lines /\ (~ok' \/ normHost' = <<>>)) => (out' = out /\ pc' = pc)]_vars

\* under -r a line without a host was read and nothing was written
C6_Witness == reverse /\ lines = <<S("http://")>> /\ ~ok /\ out = <<>>

\* the latest iteration of processLines got a non-empty normalized host
hostFound == lines # <<>> /\ ok /\ normHost # <<>>

\* the port constraint of entry e is absent or met by the candidate port p
portAllows(e, p) == e.port = <<>> \/ e.port = p

(***************************************************************************)
(* matchHost and the entry ports                                           *)
(***************************************************************************)

SpecPorts ==
  /\ InitRun({S("d.c:80"), S("e.c"), S("e.c:80"), S("*.t.c:80"), S("s.*.c"), S("1.2.3.4:80")},
             {S("d.c"), S("d.c:80"), S("d.c:8080"), S("d.c:080"), S("e.c"),
              S("a.t.c:80"), S("s.e.c:8080"), S("1.2.3.4:80")},
             {FALSE})
  /\ [][Next]_vars

\* the host rule of entry e, by its kind, for the host h that parses to ip
hostRule(e, h, ip) ==
  IF ip # NoIP
  THEN e.kind = scopeExact /\ (IPEqual(ParseIP(e.base), ip) \/ EqualFold(e.base, h))
  ELSE kindMatches(h, e)

someEntryAccepts(h, p, ip) ==
  \E i \in DOMAIN scope : hostRule(scope[i], h, ip) /\ portAllows(scope[i], p)

\* C1: for a non-empty normalized host, matchHost is true exactly when some
\* entry of the scope accepts the host by the rule of its kind and has no
\* port or the candidate's port; so neither the order of the entries nor a
\* port mismatch on an earlier entry changes the result
C1_MatchIsExistential ==
  hostFound => (matched <=> someEntryAccepts(normHost, port, ParseIP(normHost)))

\* e.c without a port, with e.c:80 in front of e.c in the scope: matched
C1_Witness ==
  /\ scope = loadScopeLine(S("e.c:80")) \o loadScopeLine(S("e.c"))
  /\ hostFound
  /\ normHost = S("e.c")
  /\ port = <<>>
  /\ matched

(***************************************************************************)
(* "*.base" entries                                                        *)
(***************************************************************************)

SpecLeading ==
  /\ InitRun({S("*.t.c"), S("*.T.C."), S("*.t.c..."), S("*.") \o <<UUML>> \o S(".c")},
             {S("t.c"), S("a.t.c"), S("d.n.s.t.c"), S("xt.c"), S("t.c."), S("t.c.."),
              S("a.t.c.."), S("T.C"), S("a.t.c:80"), S("t.c.x"), S("https://A.T.C/p"),
              S("a.") \o <<UUML>> \o S(".c")},
             {FALSE})
  /\ [][Next]_vars

\* the scope is one "*.base" entry without a port and the latest line gave a
\* domain name
oneLeadingEntry ==
  /\ Len(scope) = 1
  /\ scope[1].kind = scopeLeadingWildcard
  /\ scope[1].port = <<>>
  /\ hostFound
  /\ ParseIP(normHost) = NoIP

\* C2 as stated: the entry accepts h exactly when h equals b or h ends with
\* "." followed by b
C2_LeadingEqualOrSuffix ==
  oneLeadingEntry =>
    (matched <=> (normHost = scope[1].base \/ HasSuffix(normHost, Dot \o scope[1].base)))

\* h and b are the same text when one trailing dot is taken off each and the
\* case of the letters is ignored
sameIgnoringDotAndCase(h, b) == ToLower(TrimSuffix(h, Dot)) = ToLower(TrimSuffix(b, Dot))

\* C2: a "*.b" entry without a port accepts the domain name h exactly when h
\* equals b, ignoring the case of the letters and one trailing dot of each,
\* or h ends with "." followed by b; a host that only ends with the letters
\* of b is not accepted
C2_LeadingWildcard ==
  oneLeadingEntry =>
    (matched <=> (sameIgnoringDotAndCase(normHost, scope[1].base)
                    \/ HasSuffix(normHost, Dot \o scope[1].base)))

\* a subdomain three labels below the base is matched by "*.t.c"
C2_Witness ==
  /\ oneLeadingEntry
  /\ scope[1].base = S("t.c")
  /\ normHost = S("d.n.s.t.c")
  /\ matched

(***************************************************************************)
(* entries with "*" inside                                                 *)
(***************************************************************************)

SpecPattern ==
  /\ InitRun({S("s.*.d.c"), S("S.*.D.C"), S("s.* :80"), S("*"), S("s.*.d.c:80")},
             {S("s.e.d.c"), S("s.d.c"), S("s.a.b.d.c"), S("s..d.c"), S("S.E.D.C."),
              S("s.e:80"), S("s.e"), S("x"), S("s.e.d.c:80"), S("t.e.d.c")},
             {FALSE})
  /\ [][Next]_vars

\* the scope is one pattern entry whose port allows the candidate's, and the
\* latest line gave a domain name
onePatternEntry ==
  /\ Len(scope) = 1
  /\ scope[1].kind = scopePatternWildcard
  /\ portAllows(scope[1], port)
  /\ hostFound
  /\ ParseIP(normHost) = NoIP

\* label by label: p is "*" and the host label is not empty, or p is a
\* literal equal to the host label but for the case of the letters
labelsAccepted(hl, P) ==
  /\ Len(hl) = Len(P)
  /\ \A i \in 1..Len(P) : \/ P[i] = Star /\ hl[i] # <<>>
                          \/ P[i] # Star /\ ToLower(P[i]) = ToLower(hl[i])

\* the stored labels with the whitespace around each taken off
trimmedLabels(P) == [i \in DOMAIN P |-> TrimSpace(P[i])]

\* C3 as stated: the labels P of the entry are compared as they are stored
C3_PatternStoredLabels ==
  onePatternEntry =>
    (matched <=> labelsAccepted(Split(TrimSuffix(normHost, Dot), "."), scope[1].patternLabels))

\* C3: a pattern entry accepts the domain name h exactly when h, one trailing
\* dot taken off, splits on "." into as many labels as the pattern has and at
\* each position the pattern label, the whitespace around it taken off, is
\* "*" and the host label is not empty, or equals the host label but for the
\* case of the letters; "*" stands for exactly one label
C3_PatternWildcard ==
  onePatternEntry =>
    (matched <=> labelsAccepted(Split(TrimSuffix(normHost, Dot), "."),
                                trimmedLabels(scope[1].patternLabels)))

\* s.e.d.c is matched by "s.*.d.c"
C3_Witness ==
  /\ onePatternEntry
  /\ scope[1].patternLabels = <<S("s"), S("*"), S("d"), S("c")>>
  /\ normHost = S("s.e.d.c")
  /\ matched

(***************************************************************************)
(* IP literals on the input                                                *)
(***************************************************************************)

SpecIP ==
  /\ InitRun({S("*.3.4"), S("1.*.3.4"), S("1.2.3.4"), S("1.2.3.4:80"), S("[::1]")},
             {S("1.2.3.4"), S("1.2.3.4:80"), S("http://1.2.3.4:8080/"),
              S("[0:0::1]:80"), S("5.2.3.4"), S("a.3.4"), S("::ffff:1.2.3.4")},
             {FALSE})
  /\ [][Next]_vars

\* e is an Exact entry for the address ip, written h, and the port p
exactAccepts(e, h, p, ip) ==
  /\ e.kind = scopeExact
  /\ (IPEqual(ParseIP(e.base), ip) \/ EqualFold(e.base, h))
  /\ portAllows(e, p)

someExactAccepts(h, p, ip) == \E i \in DOMAIN scope : exactAccepts(scope[i], h, p, ip)

\* C7: when the normalized host is an IP literal, matchHost is false unless
\* an Exact entry accepts the address, whatever "*" entries the scope has,
\* and true when an Exact entry is the same address or the same text but for
\* the case of the letters and its port allows the candidate's
C7_OnlyExactForIP ==
  (hostFound /\ ParseIP(normHost) # NoIP) =>
    (matched <=> someExactAccepts(normHost, port, ParseIP(normHost)))

\* 1.2.3.4 is matched neither by "*.3.4" nor by "1.*.3.4"
C7_Witness ==
  /\ scope = loadScopeLine(S("*.3.4")) \o loadScopeLine(S("1.*.3.4"))
  /\ hostFound
  /\ normHost = S("1.2.3.4")
  /\ ~matched

(***************************************************************************)
(* normalizeHost                                                           *)
(***************************************************************************)

SpecNormalize ==
  /\ InitRun({S("a"), S("a.b"), S("1.2.3.4")},
             {S("a.."), S("a."), S("a"), S("A.B."), S("1.2.3.4."), S("1.2.3.4.."),
              <<UUML>> \o S(".b"), S("[::1]"), S("http://a../"), S("[0:0::1]")},
             {FALSE})
  /\ [][Next]_vars

\* C4: normalizeHost is idempotent: normalizing the normalized host of a line
\* gives the same host again
C4_NormalizeIdempotent ==
  (lines # <<>> /\ ok) => normalizeHost(normHost) = normHost

(***************************************************************************)
(* the kind of a scope line                                                *)
(***************************************************************************)

SpecKinds ==
  /\ InitRun({S("e.c"), S("*.t.c"), S("s.*.d.c"), S("*.a.*.c"), S("*"), S("*."),
              S("*a.c"), S("1.2.3.4"), S("e.c:80 # x")},
             {S("e.c"), S("a.t.c"), S("x.a.y.c")},
             {FALSE})
  /\ [][Next]_vars

\* the number of "*" in line
stars(line) == Cardinality({i \in 1..Len(line) : line[i] = "*"})

\* base only for Exact and "*.base" entries, patternLabels only for patterns
fieldsByKind(e) ==
  /\ e.kind \in {scopeExact, scopeLeadingWildcard, scopePatternWildcard}
  /\ e.kind = scopePatternWildcard => e.base = <<>>
  /\ e.kind # scopePatternWildcard => e.patternLabels = <<>>

\* the kinds as stated: "*." in front and no other "*" for a "*.base" entry,
\* any other "*" for a pattern
kindByStars(e, line) ==
  /\ e.kind = scopeExact <=> stars(line) = 0
  /\ e.kind = scopeLeadingWildcard <=> (HasPrefix(line, StarDot) /\ stars(line) = 1)
  /\ (stars(line) > 0 /\ ~(HasPrefix(line, StarDot) /\ stars(line) = 1))
       => e.kind = scopePatternWildcard

\* C8 as stated: a line that starts with "*." and has a further "*" is a
\* pattern
C8_KindByStars ==
  \A i \in DOMAIN scope : kindByStars(scope[i], scope[i].raw) /\ fieldsByKind(scope[i])

\* the kinds by what the line, one trailing dot taken off, starts with
kindByPrefix(e, line) ==
  /\ e.kind = scopeExact <=> stars(line) = 0
  /\ e.kind = scopeLeadingWildcard <=> HasPrefix(line, StarDot)
  /\ e.kind = scopePatternWildcard <=> (stars(line) > 0 /\ ~HasPrefix(line, StarDot))

\* C8: every scope line gets exactly one kind: Exact exactly when it has no
\* "*"; "*.base" exactly when the line, one trailing dot taken off, starts
\* with "*.", whatever "*" follow; a pattern exactly when it has a "*" and
\* does not start with "*."; base is set only for the first two kinds and
\* patternLabels only for patterns
C8_KindByPrefix ==
  \A i \in DOMAIN scope :
    kindByPrefix(scope[i], TrimSuffix(scope[i].raw, Dot)) /\ fieldsByKind(scope[i])

\* "*.a.*.c" is a "*.base" entry with the base "a.*.c"
C8_Witness ==
  /\ Len(scope) = 1
  /\ scope[1].raw = S("*.a.*.c")
  /\ scope[1].kind = scopeLeadingWildcard
  /\ scope[1].base = S("a.*.c")
  /\ scope[1].patternLabels = <<>>

(***************************************************************************)
(* IPv6 literals without brackets                                          *)
(***************************************************************************)

SpecIPv6 ==
  /\ InitRun({S("::1"), S("2001:db8::1"), S("[::1]"), S("::ffff:1.2.3.4"), S("1::")},
             {S("[::1]"), S("::1"), S("http://[::1]:80/"), S("2001:db8::1"),
              S("[2001:db8::1]:80")},
             {FALSE})
  /\ [][Next]_vars

\* s is an IPv6 literal without brackets
bareIPv6(s) == ":" \in Range(s) /\ ParseIP(s) # NoIP

\* C9: an IPv6 literal without brackets is never split into host and port: as
\* a scope line it gives an Exact entry with the canonical text of the address
\* as base and no port, and as an input line the whole literal is the host
C9_BareIPv6NotSplit ==
  /\ \A i \in DOMAIN scope :
       bareIPv6(scope[i].raw) =>
         scope[i] = scopeEntry(scope[i].raw, scopeExact,
                               IPString(ParseIP(scope[i].raw)), <<>>, <<>>)
  /\ (lines # <<>> /\ bareIPv6(lastLine)) => (ok /\ host = lastLine /\ port = <<>>)

(***************************************************************************)
(* extractHostFromLine and URLs without a host                             *)
(***************************************************************************)

SpecURL ==
  /\ InitRun({S("e.c"), S("e.c:80")},
             {S("http://e.c/p"), S("://e.c"), S("h://"), S("http://e.c:x/"), S("/p"),
              S("e.c:x/p"), S("e.c/p"), S("e.c:80/p"), S("[::1]/p"), S("e.c")},
             BOOLEAN)
  /\ [][Next]_vars

\* the first field of the latest line goes to url.Parse as it is
schemeField(first) == Contains(first, SchemeSep)

\* the first field of the latest line goes to url.Parse behind "http://"
slashField(first) ==
  /\ ~Contains(first, SchemeSep)
  /\ ~(first[1] = "[" /\ "]" \in Range(first))
  /\ "/" \in Range(first)

\* url.Parse gave an error or a URL without a host
noHost(u) == u.err \/ u.host = <<>>

nothingExtracted == ~ok /\ host = <<>> /\ port = <<>>

\* the field itself split into host and port
splitDirectly(hp) == ok /\ host = unbracket(hp.host) /\ port = hp.port

discardedAlways(first) ==
  /\ (schemeField(first) /\ noHost(UrlParse(first))) => nothingExtracted
  /\ (slashField(first) /\ noHost(UrlParse(HttpPrefix \o first))) => nothingExtracted

discardedWithScheme(first) ==
  /\ (schemeField(first) /\ noHost(UrlParse(first))) => nothingExtracted
  /\ (slashField(first) /\ noHost(UrlParse(HttpPrefix \o first)))
       => splitDirectly(stripPort(first))

\* C10 as stated: a first field that goes to url.Parse, with "://" in it or
\* behind "http://", and gives an error or no host is given up
C10_UrlFailureDiscards ==
  lines # <<>> => discardedAlways(Fields(lastLine)[1])

\* C10: a first field with "://" whose URL has an error or no host is given
\* up, ok is false; a first field with "/" and no "://" whose URL behind
\* "http://" has an error or no host is not given up: the field itself is
\* split into host and port and ok is true
C10_UrlFailure ==
  lines # <<>> => discardedWithScheme(Fields(lastLine)[1])

\* "/p" gives the host "/p"
C10_Witness == lines # <<>> /\ lastLine = S("/p") /\ ok /\ host = S("/p") /\ port = <<>>
====
